---------------------------- MODULE Spec2Model ----------------------------
(***************************************************************************)
(* Model of the waypoint updater node of CarND-Capstone                    *)
(* (src/ros/src/waypoint_updater/waypoint_updater.py), of the debouncing   *)
(* of the traffic light detector (src/ros/src/tl_detector/tl_detector.py)  *)
(* and of the yaw controller                                               *)
(* (src/ros/src/twist_controller/yaw_controller.py).                       *)
(*                                                                         *)
(* The node has one control loop (the body of WaypointUpdater.__init__,    *)
(* running in the main thread) and one callback per subscribed topic, each *)
(* run by rospy in a thread of its own.  The callbacks assign instance     *)
(* fields that the loop reads, with no lock: the loop is therefore modelled*)
(* statement by statement at every read of a field a callback assigns, and *)
(* a callback may run between any two of its steps.                        *)
(*                                                                         *)
(* Numbers.  Lengths and speeds are fixed-point integers in tenths of the  *)
(* source's unit (2.0 is 20, 0.1 is 1); a ratio of two of them (a time) is *)
(* kept unscaled.  None is the empty tuple and a value v held by a field   *)
(* that may be None is the 1-tuple <<v>>.  Yaw is counted in quarter turns.*)
(***************************************************************************)
EXTENDS Integers, Sequences, FiniteSets, TLC

VARIABLES
    \* fields of WaypointUpdater assigned by the callbacks
    px, py, yaw,            \* pose_cb
    velocity,               \* velocity_cb
    waypoints,              \* waypoints_cb
    target_velocity,        \* target_velocity_cb
    red_tl_waypoint_idx,    \* traffic_cb
    \* fields of WaypointUpdater assigned by the loop only
    state, trajectory_start_idx, trajectory, current_velocity,
    \* the control loop: its position and the locals of the running calls
    pc, err,
    current_idx,            \* __init__: current_idx
    min_idx,                \* find_closest_waypoint: min_idx
    dist_to_tl,             \* is_red_traffic_light_near: dist_to_tl
    tl_near,                \* update_state: tl_near
    idx, i, num_wp, lane,   \* publish_waypoints: current_idx, i, num_wp, lane
    \* (min_idx, dist_to_tl and the locals of publish_waypoints hold their
    \* initial values again once the call that owns them has returned)
    \* pose_cb: its position and the message it is handling
    pose_pc, pose_msg,
    \* history: the first value of each callback-assigned field the loop has
    \* read in the running tick, and whether a later read in the same tick
    \* returned another value; the planner state the tick started in
    seen, torn, tick_state,
    \* fields of TLDetector assigned by image_cb
    tl_state, tl_last_state, tl_last_wp, tl_state_count,
    \* /traffic_waypoint: the messages the latest image_cb published
    tl_pub,
    \* history: what process_traffic_lights returned to the latest image_cb,
    \* and the number of frames in a row, the latest included, that predicted
    \* the latest frame's state (0 before the first frame)
    tl_frame, tl_run,
    \* a pure function under examination: the object it is called on, its
    \* arguments and its result
    call

shared  == <<px, py, yaw, velocity, waypoints, target_velocity, red_tl_waypoint_idx>>
planner == <<state, trajectory_start_idx, trajectory, current_velocity>>
locals  == <<current_idx, min_idx, dist_to_tl, tl_near, idx, i, num_wp, lane>>
posecb  == <<pose_pc, pose_msg>>
history == <<seen, torn, tick_state>>
detector == <<tl_state, tl_last_state, tl_last_wp, tl_state_count, tl_pub,
              tl_frame, tl_run>>
aux     == <<detector, call>>
updater == <<shared, planner, pc, err, locals, posecb, history>>
vars    == <<shared, planner, pc, err, locals, posecb, history, aux>>

-----------------------------------------------------------------------------
(* Values *)

None == <<>>
Some(v) == <<v>>
Val(o) == o[1]

Max(a, b) == IF a >= b THEN a ELSE b

\* class STATE
KEEP_VELOCITY == 0
STOP_AT_TL == 1

\* Number of waypoints published per tick (50 in the source, scaled down).
LOOKAHEAD_WPS == 2

\* The thresholds of is_red_traffic_light_near, in tenths.
PassedDistance == 20
StandstillDistance == 10
StandstillVelocity == 1
\* self.breaking_trajectory_duration, a time (unscaled)
breaking_trajectory_duration == 4
\* BreakingTrajectory's max(0.1, distance_to_tl), in tenths
MinBreakingDistance == 1
\* rospy.get_param('~velocity', 40.0) / 3.6, in tenths
DefaultTargetVelocity == 111

-----------------------------------------------------------------------------
(* Inputs: the messages the topics deliver *)

Point(x, y) == [x |-> x, y |-> y, z |-> 0]

\* /base_waypoints: a straight route with 30.0 between waypoints, and a
\* shorter one with 0.5 between them
PathLong  == <<Point(0, 0), Point(300, 0), Point(600, 0)>>
PathShort == <<Point(0, 0), Point(5, 0)>>
Paths == {PathLong, PathShort}

\* /current_pose: just before waypoint 0, and just past waypoint 1, both
\* heading along the route
Poses == { [px |-> -10, py |-> 0, yaw |-> 0],
           [px |-> 310, py |-> 0, yaw |-> 0] }

\* /current_velocity: standing, and 10.0
Velocities == {0, 100}

\* /target_velocity
TargetVelocities == {50}

\* /traffic_waypoint: -1 (no red light ahead) or a waypoint index
MaxStopIdx == 2
StopRequests == {-1} \cup (0 .. MaxStopIdx)


-----------------------------------------------------------------------------
(* Pure functions *)

\* math.sqrt on fixed-point values: the integer square root (rounded down)
RECURSIVE Isqrt(_)
Isqrt(n) ==
    IF n < 2 THEN n
    ELSE LET s == 2 * Isqrt(n \div 4)
         IN  IF (s + 1) * (s + 1) > n THEN s ELSE s + 1

\* distance: the lambda dl
dl(a, b) == Isqrt((a.x - b.x) * (a.x - b.x) + (a.y - b.y) * (a.y - b.y)
                  + (a.z - b.z) * (a.z - b.z))

\* distance(wp1, wp2) on the list wps: the loop over range(wp1, wp2+1), which
\* adds dl(wps[wp1], wps[k]) and then moves wp1 to k.  Python's indices
\* start at 0, a sequence's at 1.
RECURSIVE distance_from(_, _, _, _)
distance_from(wps, prev, k, wp2) ==
    IF k > wp2 THEN 0
    ELSE dl(wps[prev + 1], wps[k + 1]) + distance_from(wps, k, k + 1, wp2)

\* the straight line from wp1 to wp2 in place of the way along the list
distance_to_endpoint(wps, wp1, wp2) ==
    IF wp2 < wp1 THEN 0 ELSE dl(wps[wp1 + 1], wps[wp2 + 1])

distance(wps, wp1, wp2) == distance_from(wps, wp1, wp1, wp2)

\* The indices distance(wp1, wp2) reads from the list: none when the range
\* is empty, otherwise wp1 .. wp2.
distance_reads(wp1, wp2) == wp1 .. wp2

\* A list index Python accepts without IndexError (the model never passes a
\* negative one to a read).
InRange(wps, k) == k >= 0 /\ k < Len(wps)

\* BreakingTrajectory.__init__ with alpha = 1.25.  The acceleration
\* -0.5 * v^2 / max(0.1, d) * 1.25 is kept as the exact fraction num/den of
\* the source's unit: with v = V/10 and d = D/10 it is -V^2 / (16 * max(1, D)).
BreakingTrajectory(start_velocity, distance_to_tl) ==
    [ class          |-> "BreakingTrajectory",
      start_velocity |-> start_velocity,
      distance_to_tl |-> distance_to_tl,
      acceleration   |-> [ num |-> -(start_velocity * start_velocity),
                           den |-> 16 * Max(MinBreakingDistance, distance_to_tl) ] ]

\* velocity_at_position with the sign of x * a exchanged
velocity_at_position_rising(t, x) ==
    IF x >= t.distance_to_tl THEN 0
    ELSE Isqrt(Max(0, t.start_velocity * t.start_velocity
                      - ((10 * x * t.acceleration.num) \div t.acceleration.den)))

\* BreakingTrajectory.velocity_at_position: sqrt(max(0, x * a + v^2)); in
\* tenths, (10 * x * num / den + V^2) is 100 times the radicand.
velocity_at_position(t, x) ==
    IF x >= t.distance_to_tl THEN 0
    ELSE Isqrt(Max(0, ((10 * x * t.acceleration.num) \div t.acceleration.den)
                      + t.start_velocity * t.start_velocity))

\* math.cos and math.sin of a number of quarter turns
Cos(q) == CASE q % 4 = 0 -> 1  [] q % 4 = 1 -> 0 [] q % 4 = 2 -> -1 [] OTHER -> 0
Sin(q) == CASE q % 4 = 0 -> 0  [] q % 4 = 1 -> 1 [] q % 4 = 2 -> 0  [] OTHER -> -1

\* transform_to_local: the local x coordinate of wp (the only one used)
transform_to_local(wp, x, y, q) ==
    Cos(-q) * (wp.x - x) - Sin(-q) * (wp.y - y)

is_waypoint_ahead(wp, x, y, q) == transform_to_local(wp, x, y, q) > 0

\* distance_to_waypoint, squared: the scan only compares these distances, and
\* the square root keeps their order
distance_to_waypoint_sq(wp, x, y) ==
    (wp.x - x) * (wp.x - x) + (wp.y - y) * (wp.y - y)

\* find_closest_waypoint, lines 145-152: the scan for the first waypoint at
\* the least distance (min_dist starts at 1e9, above every distance)
RECURSIVE closest_scan(_, _, _, _, _, _)
closest_scan(wps, x, y, k, best, best_sq) ==
    IF k >= Len(wps) THEN best
    ELSE LET d == distance_to_waypoint_sq(wps[k + 1], x, y)
         IN  IF best = -1 \/ d < best_sq
             THEN closest_scan(wps, x, y, k + 1, k, d)
             ELSE closest_scan(wps, x, y, k + 1, best, best_sq)

\* is_red_traffic_light_near, line 246: the stop index is behind
near_when_passed(d) == d < PassedDistance

\* is_red_traffic_light_near, line 248.  The velocity is None until the first
\* /current_velocity message; the node runs under Python 2, where None
\* compares below every number.
is_standing(v) == v = None \/ Val(v) < StandstillVelocity

\* is_red_traffic_light_near, line 249
near_when_standing(d) == d < StandstillDistance

\* near_when_moving with the operands of the division exchanged
near_when_moving_swapped(d, v) ==
    IF d > 0 THEN v < breaking_trajectory_duration * d ELSE TRUE

\* is_red_traffic_light_near, lines 251-252: d / v < duration for v # 0
near_when_moving(d, v) ==
    IF v > 0 THEN d < breaking_trajectory_duration * v
             ELSE d > breaking_trajectory_duration * v

\* calc_waypoint_velocity with the test of the state inverted
calc_waypoint_velocity_inverted(k, st, tv, red, start, traj, wps) ==
    IF st # KEEP_VELOCITY THEN tv
    ELSE IF k >= red THEN 0
    ELSE 0

\* calc_waypoint_velocity, on the values it reads
calc_waypoint_velocity(k, st, tv, red, start, traj, wps) ==
    IF st = KEEP_VELOCITY THEN tv
    ELSE IF k >= red THEN 0
    ELSE velocity_at_position(Val(traj), distance(wps, start, k))

-----------------------------------------------------------------------------
(* Pure functions of the yaw controller (yaw_controller.py).  Its          *)
(* parameters and arguments are in tenths; a quotient is kept as the exact *)
(* fraction [num, den] (den > 0) of the source's unit.                     *)

Abs(a) == IF a < 0 THEN -a ELSE a

Frac(n, d) == IF d < 0 THEN [num |-> -n, den |-> -d] ELSE [num |-> n, den |-> d]
FracLess(a, b) == a.num * b.den < b.num * a.den
\* Python's min and max of two numbers: the first unless the second is
\* strictly below (above) it
FracMin(a, b) == IF FracLess(b, a) THEN b ELSE a
FracMax(a, b) == IF FracLess(a, b) THEN b ELSE a
FracNeg(a) == [num |-> -a.num, den |-> a.den]

\* clamp that clamps nothing
clamp_unbounded(value, max_abs_value) == value

\* YawController.clamp, lines 12-14
clamp(value, max_abs_value) ==
    FracMax(FracNeg(max_abs_value), FracMin(max_abs_value, value))

\* math.atan(p / q) for 0 <= p <= q, in thousandths of a radian:
\* x / (1 + 0.28125 x^2), which is within 0.005 of the arc tangent
atan_unit(p, q) == (32000 * p * q) \div (32 * q * q + 9 * p * p)

\* math.atan(p / q) for p >= 0 and q > 0: above 1 it is pi/2 - atan(q / p).
\* The operands are first brought below 200, to stay within 32 bits.
atan_pos(p, q) ==
    LET k == (Max(p, q) \div 200) + 1
        a == p \div k
        b == Max(1, q \div k)
    IN  IF a <= b THEN atan_unit(a, b) ELSE 1571 - atan_unit(b, a)

\* math.atan of a fraction, in thousandths of a radian
atan(f) == IF f.num >= 0 THEN atan_pos(f.num, f.den) ELSE -atan_pos(-f.num, f.den)

\* What a call of get_steering ends in: the angle returned (in tenths) or the
\* exception raised, with the last value of the local angular_velocity and
\* the radius, if one was computed.
Returned(a, w, r) ==
    [angle |-> Some(a), raised |-> "none", angular_velocity |-> w, radius |-> r]
Raised(e, w, r) ==
    [angle |-> None, raised |-> e, angular_velocity |-> w, radius |-> r]

\* YawController.get_angle, lines 17-19: atan(wheel_base / radius) *
\* steer_ratio, clamped; the division raises for a radius of 0
get_angle(yc, w, radius) ==
    IF radius.num = 0 THEN Raised("ZeroDivisionError", Some(w), Some(radius))
    ELSE LET a == atan(Frac(yc.wheel_base * radius.den, 10 * radius.num))
             angle == IF a >= 0 THEN (a * yc.steer_ratio) \div 1000
                                ELSE -((-a * yc.steer_ratio) \div 1000)
         IN  Returned(clamp(Frac(angle, 1), Frac(yc.max_steer_angle, 1)).num,
                      Some(w), Some(radius))

\* the test of line 28 always passing
is_moving_always(current_vel) == TRUE

\* get_steering, line 28: abs(current_velocity) > 0.1
is_moving(current_vel) == Abs(current_vel) > 1

\* YawController.get_steering, lines 22-38 (current_vel is its argument
\* current_velocity)
get_steering(yc, linear_velocity, angular_velocity, current_vel) ==
    IF ~(Abs(linear_velocity) > 0)
    THEN Returned(0, Some(Frac(angular_velocity, 10)), None)
    ELSE LET rescaled == Frac(current_vel * angular_velocity,
                              10 * linear_velocity)
         IN  IF ~is_moving(current_vel)
             THEN Returned(0, Some(rescaled), None)
             ELSE IF current_vel = 0
             THEN Raised("ZeroDivisionError", Some(rescaled), None)
             ELSE LET max_yaw_rate == Frac(Abs(yc.max_lat_accel),
                                           Abs(current_vel))
                      w == clamp(rescaled, max_yaw_rate)
                  IN  IF ~(Abs(w.num) > 0)
                      THEN Returned(0, Some(w), None)
                      ELSE get_angle(yc, w,
                               Frac(Max(current_vel, yc.min_speed) * w.den,
                                    10 * w.num))

-----------------------------------------------------------------------------
(* History of the reads of one tick *)

Unseen == [red |-> None, vel |-> None, path |-> None, pose |-> None]

\* One step of the loop reads some of the callback-assigned fields: each
\* argument is None (not read by the step) or Some(the value read).
Tears(r, v, p, o) ==
    \/ r # None /\ seen.red  # None /\ seen.red  # r
    \/ v # None /\ seen.vel  # None /\ seen.vel  # v
    \/ p # None /\ seen.path # None /\ seen.path # p
    \/ o # None /\ seen.pose # None /\ seen.pose # o

Note(r, v, p, o) ==
    /\ torn' = (torn \/ Tears(r, v, p, o))
    /\ seen' = IF torn' THEN Unseen
               ELSE [ red  |-> IF seen.red  = None THEN r ELSE seen.red,
                      vel  |-> IF seen.vel  = None THEN v ELSE seen.vel,
                      path |-> IF seen.path = None THEN p ELSE seen.path,
                      pose |-> IF seen.pose = None THEN o ELSE seen.pose ]

\* a step of a tick under way
Track(r, v, p, o) == Note(r, v, p, o) /\ UNCHANGED tick_state

Pose == <<px, py, yaw>>

-----------------------------------------------------------------------------
(* Initial states: WaypointUpdater.__init__, lines 64-80 *)

NoLocals ==
    /\ current_idx = 0 /\ min_idx = 0 /\ dist_to_tl = 0 /\ tl_near = FALSE
    /\ idx = 0 /\ i = 0 /\ num_wp = 0 /\ lane = <<>>

WaypointUpdaterInit ==
    /\ px = None /\ py = None /\ yaw = None
    /\ velocity = None
    /\ waypoints = None
    /\ target_velocity = DefaultTargetVelocity
    /\ state = KEEP_VELOCITY
    /\ red_tl_waypoint_idx = -1
    /\ trajectory_start_idx = -1
    /\ trajectory = None
    /\ current_velocity = 0
    /\ pc = "wait" /\ err = "none"
    /\ NoLocals
    /\ pose_pc = "idle" /\ pose_msg = None
    /\ seen = Unseen /\ torn = FALSE /\ tick_state = KEEP_VELOCITY

\* TLDetector.__init__, lines 49-52; nothing is published and no frame has
\* come yet
TLDetectorInit ==
    /\ tl_state = "UNKNOWN" /\ tl_last_state = "UNKNOWN"
    /\ tl_last_wp = -1 /\ tl_state_count = 0
    /\ tl_pub = <<>> /\ tl_frame = None /\ tl_run = 0

\* The waypoint updater starts; no pure function is under examination.
Init == WaypointUpdaterInit /\ TLDetectorInit /\ call = None

-----------------------------------------------------------------------------
(* The callbacks.  A crashed process runs none. *)

Running == pc # "crashed"

\* pose_cb, line 96
pose_cb_96 ==
    /\ Running /\ pose_pc = "idle"
    /\ \E m \in Poses :
         /\ px' = Some(m.px)
         /\ pose_msg' = Some(m)
    /\ pose_pc' = "l97"
    /\ UNCHANGED <<py, yaw, velocity, waypoints, target_velocity,
                   red_tl_waypoint_idx, planner, pc, err, aux, locals, history>>

\* pose_cb, line 97
pose_cb_97 ==
    /\ Running /\ pose_pc = "l97"
    /\ py' = Some(Val(pose_msg).py)
    /\ pose_pc' = "l102"
    /\ UNCHANGED <<px, yaw, velocity, waypoints, target_velocity,
                   red_tl_waypoint_idx, planner, pc, err, aux, locals, pose_msg, history>>

\* pose_cb, lines 100-102
pose_cb_102 ==
    /\ Running /\ pose_pc = "l102"
    /\ yaw' = Some(Val(pose_msg).yaw)
    /\ pose_pc' = "idle" /\ pose_msg' = None
    /\ UNCHANGED <<px, py, velocity, waypoints, target_velocity,
                   red_tl_waypoint_idx, planner, pc, err, aux, locals, history>>

velocity_cb ==
    /\ Running
    /\ \E v \in Velocities : velocity' = Some(v)
    /\ UNCHANGED <<px, py, yaw, waypoints, target_velocity,
                   red_tl_waypoint_idx, planner, pc, err, aux, locals, posecb, history>>

target_velocity_cb ==
    /\ Running
    /\ \E v \in TargetVelocities : target_velocity' = v
    /\ UNCHANGED <<px, py, yaw, velocity, waypoints,
                   red_tl_waypoint_idx, planner, pc, err, aux, locals, posecb, history>>

waypoints_cb ==
    /\ Running
    /\ \E p \in Paths : waypoints' = Some(p)
    /\ UNCHANGED <<px, py, yaw, velocity, target_velocity,
                   red_tl_waypoint_idx, planner, pc, err, aux, locals, posecb, history>>

traffic_cb ==
    /\ Running
    /\ \E r \in StopRequests : red_tl_waypoint_idx' = r
    /\ UNCHANGED <<px, py, yaw, velocity, waypoints, target_velocity,
                   planner, pc, err, aux, locals, posecb, history>>

-----------------------------------------------------------------------------
(* The control loop: WaypointUpdater.__init__, lines 82-91 *)

\* An exception no handler catches ends the process.
Crash(e) ==
    /\ pc' = "crashed" /\ err' = e
    /\ UNCHANGED <<shared, planner, locals, posecb, history, aux>>

\* lines 84-85: the loop that waits for the first pose and the first route
wait_for_inputs ==
    /\ pc = "wait"
    /\ px # None /\ waypoints # None
    /\ pc' = "find148"
    /\ UNCHANGED <<shared, planner, err, aux, locals, posecb, history>>

\* find_closest_waypoint, lines 145-152: a new tick starts
find_closest_waypoint_148 ==
    /\ pc = "find148"
    /\ IF py = None
       THEN Crash("TypeError")
       ELSE /\ min_idx' = closest_scan(Val(waypoints), Val(px), Val(py), 0, -1, 0)
            /\ pc' = "find155"
            /\ Note(None, None, Some(waypoints), Some(Pose))
            /\ tick_state' = state
            /\ UNCHANGED <<shared, planner, err, aux, current_idx, dist_to_tl,
                           tl_near, idx, i, num_wp, lane, posecb>>

\* find_closest_waypoint, lines 155-161
find_closest_waypoint_155 ==
    /\ pc = "find155"
    /\ LET wps == Val(waypoints) IN
       IF ~InRange(wps, min_idx) THEN Crash("IndexError")
       ELSE IF yaw = None THEN Crash("TypeError")
       ELSE /\ current_idx' =
                 IF is_waypoint_ahead(wps[min_idx + 1], Val(px), Val(py), Val(yaw))
                 THEN min_idx
                 ELSE (min_idx + 1) % Len(wps)
            /\ min_idx' = 0
            /\ pc' = "near240"
            /\ Track(None, None, Some(waypoints), Some(Pose))
            /\ UNCHANGED <<shared, planner, err, aux, dist_to_tl,
                           tl_near, idx, i, num_wp, lane, posecb>>

\* is_red_traffic_light_near_240 without the test for -1
is_red_traffic_light_near_240_unguarded ==
    /\ pc = "near240"
    /\ tl_near' = tl_near /\ pc' = "near243"
    /\ Track(Some(red_tl_waypoint_idx), None, None, None)
    /\ UNCHANGED <<shared, planner, err, aux, current_idx, min_idx, dist_to_tl,
                   idx, i, num_wp, lane, posecb>>

\* is_red_traffic_light_near, lines 240-241
is_red_traffic_light_near_240 ==
    /\ pc = "near240"
    /\ IF red_tl_waypoint_idx = -1
       THEN tl_near' = FALSE /\ pc' = "upd272"
       ELSE tl_near' = tl_near /\ pc' = "near243"
    /\ Track(Some(red_tl_waypoint_idx), None, None, None)
    /\ UNCHANGED <<shared, planner, err, aux, current_idx, min_idx, dist_to_tl,
                   idx, i, num_wp, lane, posecb>>

\* is_red_traffic_light_near, line 243
is_red_traffic_light_near_243 ==
    /\ pc = "near243"
    /\ LET wps == Val(waypoints)
           red == red_tl_waypoint_idx IN
       IF \E k \in distance_reads(current_idx, red) : ~InRange(wps, k)
       THEN Crash("IndexError")
       ELSE /\ dist_to_tl' = distance(wps, current_idx, red)
            /\ pc' = "near245"
            /\ Track(Some(red), None, Some(waypoints), None)
            /\ UNCHANGED <<shared, planner, err, aux, current_idx, min_idx,
                           tl_near, idx, i, num_wp, lane, posecb>>

\* is_red_traffic_light_near, lines 245-246
is_red_traffic_light_near_245 ==
    /\ pc = "near245"
    /\ IF current_idx > red_tl_waypoint_idx
       THEN /\ tl_near' = near_when_passed(dist_to_tl)
            /\ dist_to_tl' = 0 /\ pc' = "upd272"
       ELSE /\ tl_near' = tl_near
            /\ dist_to_tl' = dist_to_tl /\ pc' = "near248"
    /\ Track(Some(red_tl_waypoint_idx), None, None, None)
    /\ UNCHANGED <<shared, planner, err, aux, current_idx, min_idx,
                   idx, i, num_wp, lane, posecb>>

\* is_red_traffic_light_near, lines 248-249
is_red_traffic_light_near_248 ==
    /\ pc = "near248"
    /\ IF is_standing(velocity)
       THEN /\ tl_near' = near_when_standing(dist_to_tl)
            /\ dist_to_tl' = 0 /\ pc' = "upd272"
       ELSE /\ tl_near' = tl_near
            /\ dist_to_tl' = dist_to_tl /\ pc' = "near251"
    /\ Track(None, Some(velocity), None, None)
    /\ UNCHANGED <<shared, planner, err, aux, current_idx, min_idx,
                   idx, i, num_wp, lane, posecb>>

\* is_red_traffic_light_near, lines 251-252
is_red_traffic_light_near_251 ==
    /\ pc = "near251"
    /\ IF Val(velocity) = 0 THEN Crash("ZeroDivisionError")
       ELSE /\ tl_near' = near_when_moving(dist_to_tl, Val(velocity))
            /\ dist_to_tl' = 0
            /\ pc' = "upd272"
            /\ Track(None, Some(velocity), None, None)
            /\ UNCHANGED <<shared, planner, err, aux, current_idx, min_idx,
                           idx, i, num_wp, lane, posecb>>

\* update_state_272 building a new profile on every tick that finds the
\* light near
update_state_272_regenerating ==
    /\ pc = "upd272"
    /\ IF tl_near
       THEN /\ state' = STOP_AT_TL
            /\ trajectory_start_idx' = current_idx
            /\ trajectory' = trajectory
            /\ pc' = "dist256"
       ELSE IF state = STOP_AT_TL
       THEN /\ state' = KEEP_VELOCITY
            /\ trajectory' = None
            /\ trajectory_start_idx' = trajectory_start_idx
            /\ pc' = "pub224"
       ELSE /\ UNCHANGED <<state, trajectory, trajectory_start_idx>>
            /\ pc' = "pub224"
    /\ UNCHANGED <<shared, current_velocity, err, aux, locals, posecb, history>>

\* update_state, lines 272-274 and 280-282: the branch on the state and on
\* tl_near, up to the call of distance_to_next_traffic_light
update_state_272 ==
    /\ pc = "upd272"
    /\ IF state = KEEP_VELOCITY /\ tl_near
       THEN /\ state' = STOP_AT_TL
            /\ trajectory_start_idx' = current_idx
            /\ trajectory' = trajectory
            /\ pc' = "dist256"
       ELSE IF state = STOP_AT_TL /\ ~tl_near
       THEN /\ state' = KEEP_VELOCITY
            /\ trajectory' = None
            /\ trajectory_start_idx' = trajectory_start_idx
            /\ pc' = "pub224"
       ELSE /\ UNCHANGED <<state, trajectory, trajectory_start_idx>>
            /\ pc' = "pub224"
    /\ UNCHANGED <<shared, current_velocity, err, aux, locals, posecb, history>>

\* distance_to_next_traffic_light, line 256
distance_to_next_traffic_light_256 ==
    /\ pc = "dist256"
    /\ IF red_tl_waypoint_idx = -1 THEN Crash("AssertionError")
       ELSE /\ pc' = "dist257"
            /\ Track(Some(red_tl_waypoint_idx), None, None, None)
            /\ UNCHANGED <<shared, planner, err, aux, locals, posecb>>

\* distance_to_next_traffic_light, line 257, and update_state, lines 275-277:
\* the profile is built from self.current_velocity
update_state_275 ==
    /\ pc = "dist257"
    /\ LET wps == Val(waypoints)
           red == red_tl_waypoint_idx IN
       IF \E k \in distance_reads(current_idx, red) : ~InRange(wps, k)
       THEN Crash("IndexError")
       ELSE /\ trajectory' = Some(BreakingTrajectory(current_velocity,
                                      distance(wps, current_idx, red)))
            /\ pc' = "pub224"
            /\ Track(Some(red), None, Some(waypoints), None)
            /\ UNCHANGED <<shared, state, trajectory_start_idx,
                           current_velocity, err, aux, locals, posecb>>

\* publish_waypoints, lines 224-225
publish_waypoints_224 ==
    /\ pc = "pub224"
    /\ lane' = <<>>
    /\ num_wp' = Len(Val(waypoints))
    /\ idx' = current_idx
    /\ i' = 0
    /\ pc' = "pub228"
    /\ Track(None, None, Some(waypoints), None)
    /\ UNCHANGED <<shared, planner, err, aux, current_idx, min_idx, dist_to_tl,
                   tl_near, posecb>>

\* publish_waypoints, lines 227-234: one waypoint of the lookahead path
publish_waypoints_228 ==
    /\ pc = "pub228"
    /\ LET wps == Val(waypoints) IN
       IF ~InRange(wps, idx) THEN Crash("IndexError")
       ELSE /\ lane' = Append(lane,
                 [ idx |-> idx,
                   v   |-> calc_waypoint_velocity(idx, state, target_velocity,
                               red_tl_waypoint_idx, trajectory_start_idx,
                               trajectory, wps) ])
            /\ idx' = (idx + 1) % num_wp
            /\ i' = i + 1
            /\ pc' = IF i + 1 < LOOKAHEAD_WPS THEN "pub228" ELSE "pub236"
            /\ Track(IF state = KEEP_VELOCITY THEN None
                                              ELSE Some(red_tl_waypoint_idx),
                     None, Some(waypoints), None)
            /\ UNCHANGED <<shared, planner, err, aux, current_idx, min_idx,
                           dist_to_tl, tl_near, num_wp, posecb>>

\* publish_waypoints, line 236: the lane goes out on final_waypoints and
\* publish_waypoints returns
publish_waypoints_236 ==
    /\ pc = "pub236"
    /\ pc' = "cte214"
    /\ idx' = 0 /\ i' = 0 /\ num_wp' = 0 /\ lane' = <<>>
    /\ UNCHANGED <<shared, planner, err, aux, current_idx, min_idx, dist_to_tl,
                   tl_near, posecb, history>>

\* publish_cte, line 214: get_waypoint_coords
publish_cte_214 ==
    /\ pc = "cte214"
    /\ IF ~InRange(Val(waypoints), current_idx) THEN Crash("IndexError")
       ELSE /\ pc' = "cte215"
            /\ Track(None, None, Some(waypoints), None)
            /\ UNCHANGED <<shared, planner, err, aux, locals, posecb>>

\* publish_cte, lines 215-217, then r.sleep(): the tick ends and its locals
\* die
publish_cte_215 ==
    /\ pc = "cte215"
    /\ pc' = "find148"
    /\ current_idx' = 0 /\ min_idx' = 0 /\ dist_to_tl' = 0 /\ tl_near' = FALSE
    /\ idx' = 0 /\ i' = 0 /\ num_wp' = 0 /\ lane' = <<>>
    /\ seen' = Unseen /\ torn' = FALSE /\ tick_state' = KEEP_VELOCITY
    /\ UNCHANGED <<shared, planner, err, aux, posecb>>

-----------------------------------------------------------------------------

Next ==
    \/ pose_cb_96 \/ pose_cb_97 \/ pose_cb_102
    \/ velocity_cb \/ target_velocity_cb \/ waypoints_cb \/ traffic_cb
    \/ wait_for_inputs
    \/ find_closest_waypoint_148 \/ find_closest_waypoint_155
    \/ is_red_traffic_light_near_240 \/ is_red_traffic_light_near_243
    \/ is_red_traffic_light_near_245 \/ is_red_traffic_light_near_248
    \/ is_red_traffic_light_near_251
    \/ update_state_272
    \/ distance_to_next_traffic_light_256 \/ update_state_275
    \/ publish_waypoints_224 \/ publish_waypoints_228 \/ publish_waypoints_236
    \/ publish_cte_214 \/ publish_cte_215

Spec == Init /\ [][Next]_vars

-----------------------------------------------------------------------------
(* find_closest_waypoint on its own: one call on a complete pose and a     *)
(* route, with no callback in between                                      *)

\* a route that turns left at its second waypoint
PathBent == <<Point(0, 0), Point(300, 0), Point(300, 300)>>
LocalizePaths == Paths \cup {PathBent}

\* vehicle positions on and beside the routes, under each of the four headings
LocalizePoses ==
    { [px |-> x, py |-> y, yaw |-> q] :
        x \in {-10, 0, 290, 310, 610}, y \in {-20, 0, 20}, q \in 0 .. 3 }

\* the loop is about to call find_closest_waypoint (line 88)
InitLocalize ==
    /\ \E m \in LocalizePoses :
         px = Some(m.px) /\ py = Some(m.py) /\ yaw = Some(m.yaw)
    /\ \E p \in LocalizePaths : waypoints = Some(p)
    /\ velocity = None
    /\ target_velocity = DefaultTargetVelocity
    /\ state = KEEP_VELOCITY
    /\ red_tl_waypoint_idx = -1
    /\ trajectory_start_idx = -1
    /\ trajectory = None
    /\ current_velocity = 0
    /\ pc = "find148" /\ err = "none"
    /\ NoLocals
    /\ pose_pc = "idle" /\ pose_msg = None
    /\ seen = Unseen /\ torn = FALSE /\ tick_state = KEEP_VELOCITY
    /\ TLDetectorInit /\ call = None

NextLocalize == find_closest_waypoint_148 \/ find_closest_waypoint_155

SpecLocalize == InitLocalize /\ [][NextLocalize]_vars

-----------------------------------------------------------------------------
(* BreakingTrajectory on its own: an object is built and its               *)
(* velocity_at_position is called, again and again                         *)

\* start velocities (0.0 to 11.1) and distances to the light (0.0 to 50.0)
StartVelocities == {0, 1, 50, 100, 111}
StopDistances == {0, 1, 5, 100, 500}
\* the positions asked for (0.0 to 60.0)
Positions == {0, 1, 4, 5, 50, 79, 80, 99, 100, 499, 500, 600}

\* BreakingTrajectory(start_velocity, distance_to_tl) has been built; no
\* call of velocity_at_position has been made
InitProfile ==
    /\ WaypointUpdaterInit /\ TLDetectorInit
    /\ \E v \in StartVelocities, d \in StopDistances :
         call = [ trajectory |-> BreakingTrajectory(v, d),
                  x |-> None, v |-> None, prev |-> None ]

\* trajectory.velocity_at_position(x); the call before it is remembered
velocity_at_position_call ==
    /\ \E x \in Positions :
         call' = [ trajectory |-> call.trajectory,
                   x    |-> Some(x),
                   v    |-> Some(velocity_at_position(call.trajectory, x)),
                   prev |-> IF call.x = None THEN None
                            ELSE Some([x |-> Val(call.x), v |-> Val(call.v)]) ]
    /\ UNCHANGED <<updater, detector>>

NextProfile == velocity_at_position_call

SpecProfile == InitProfile /\ [][NextProfile]_vars

-----------------------------------------------------------------------------
(* YawController on its own: a controller is built and its get_steering is *)
(* called once (the controller keeps no state from call to call)           *)

\* YawController(wheel_base, steer_ratio, min_speed, max_lat_accel,
\* max_steer_angle): the vehicle's values (2.8, 14.8, 0.1, 3.0, 8.0) and
\* others the constructor accepts as well
Controllers ==
    [ wheel_base : {28}, steer_ratio : {10, 148}, min_speed : {0, 1, 50},
      max_lat_accel : {0, 30}, max_steer_angle : {-10, 0, 10, 80} ]

\* the arguments of get_steering
LinearVelocities == {-50, 0, 1, 50, 111}
AngularVelocities == {-10, 0, 1, 10}
CurrentVelocities == {-50, -1, 0, 1, 2, 50, 111}

InitSteer ==
    /\ WaypointUpdaterInit /\ TLDetectorInit
    /\ \E yc \in Controllers : call = [yc |-> yc, args |-> None, result |-> None]

get_steering_call ==
    /\ call.args = None
    /\ \E lv \in LinearVelocities, av \in AngularVelocities,
          cv \in CurrentVelocities :
         call' = [ yc     |-> call.yc,
                   args   |-> Some([ linear_velocity  |-> lv,
                                     angular_velocity |-> av,
                                     current_velocity |-> cv ]),
                   result |-> Some(get_steering(call.yc, lv, av, cv)) ]
    /\ UNCHANGED <<updater, detector>>

NextSteer == get_steering_call

SpecSteer == InitSteer /\ [][NextSteer]_vars

-----------------------------------------------------------------------------
(* distance on its own: a route is held and distance(wp1, wp2) is called   *)
(* once on it                                                              *)

\* the positions the routes are made of; the last is off the plane
DistancePoints ==
    { Point(0, 0), Point(30, 40), Point(30, 100),
      [x |-> -90, y |-> 100, z |-> 50] }

\* a route that doubles back
PathZig == <<Point(0, 0), Point(30, 40), Point(30, 100), Point(30, 40),
             [x |-> -90, y |-> 100, z |-> 50]>>

\* every route of three of the positions, and the longer ones
DistancePaths == [1 .. 3 -> DistancePoints] \cup LocalizePaths \cup {PathZig}

InitDistance ==
    /\ WaypointUpdaterInit /\ TLDetectorInit
    /\ \E p \in DistancePaths :
         call = [waypoints |-> p, wp1 |-> None, wp2 |-> None, dist |-> None]

distance_call ==
    /\ call.dist = None
    /\ \E wp1 \in 0 .. Len(call.waypoints) - 1,
          wp2 \in 0 .. Len(call.waypoints) - 1 :
         call' = [ waypoints |-> call.waypoints,
                   wp1  |-> Some(wp1),
                   wp2  |-> Some(wp2),
                   dist |-> Some(distance(call.waypoints, wp1, wp2)) ]
    /\ UNCHANGED <<updater, detector>>

NextDistance == distance_call

SpecDistance == InitDistance /\ [][NextDistance]_vars

-----------------------------------------------------------------------------
(* The traffic light detector: image_cb, called by rospy once per camera   *)
(* frame, one call after the other                                         *)

\* tl_detector.py, line 16
STATE_COUNT_THRESHOLD == 3

\* styx_msgs/TrafficLight: the states a light is classified as
TrafficLightStates == {"RED", "YELLOW", "GREEN", "UNKNOWN"}

\* the highest waypoint index a light is found at
MaxLightWp == 1
\* self.state_count grows with every frame; the model stops counting here
MaxStateCount == 5

\* process_traffic_lights, lines 184-253: (-1, UNKNOWN) without a route,
\* otherwise the waypoint closest to the light and the classifier's state
Frames ==
    {[light_wp |-> -1, state |-> "UNKNOWN"]}
    \cup [light_wp : 0 .. MaxLightWp, state : TrafficLightStates]

\* the test of line 89 always passing
state_count_reached_at_once(count) == TRUE

\* image_cb, line 89
state_count_reached(count) == count >= STATE_COUNT_THRESHOLD

\* image_cb, lines 77-97
image_cb ==
    \E f \in Frames :
      /\ (IF tl_state # f.state THEN 0 ELSE tl_state_count) < MaxStateCount
      /\ IF tl_state # f.state
         THEN /\ tl_state' = f.state
              /\ tl_state_count' = 0 + 1
              /\ tl_pub' = <<>>
              /\ UNCHANGED <<tl_last_state, tl_last_wp>>
         ELSE IF state_count_reached(tl_state_count)
         THEN LET light_wp == IF f.state = "RED" THEN f.light_wp ELSE -1
              IN  /\ tl_last_state' = tl_state
                  /\ tl_last_wp' = light_wp
                  /\ tl_pub' = <<light_wp>>
                  /\ tl_state_count' = tl_state_count + 1
                  /\ UNCHANGED tl_state
         ELSE /\ tl_pub' = <<tl_last_wp>>
              /\ tl_state_count' = tl_state_count + 1
              /\ UNCHANGED <<tl_state, tl_last_state, tl_last_wp>>
      /\ tl_frame' = Some(f)
      /\ tl_run' = IF tl_frame # None /\ Val(tl_frame).state = f.state
                   THEN tl_run + 1 ELSE 1
      /\ UNCHANGED <<updater, call>>

NextDetector == image_cb

SpecDetector == Init /\ [][NextDetector]_vars

-----------------------------------------------------------------------------
(* The waypoint updater while it brakes for a light: the runs of Spec in   *)
(* which every callback runs between two ticks and as a whole, and in      *)
(* which the route and the stop request are those of the tick that entered *)
(* STOP_AT_TL for as long as the planner stays in it.  The pose and the    *)
(* velocity change as the vehicle moves on along x and slows down.         *)

\* the loop is between two ticks (or still waits for its inputs)
BetweenTicks == pc \in {"wait", "find148"}

\* the planner is not stopping for a light
Cruising == state = KEEP_VELOCITY

\* a callback, run as a whole while the loop is between two ticks
between_ticks(callback) == BetweenTicks /\ callback

\* a step of the loop, with no callback under way
in_tick(step) == pose_pc = "idle" /\ step

NextBraking ==
    \/ between_ticks(pose_cb_96 /\ (px = None \/ Val(px') >= Val(px)))
    \/ between_ticks(pose_cb_97)
    \/ between_ticks(pose_cb_102)
    \/ between_ticks(velocity_cb)
    \/ between_ticks(target_velocity_cb)
    \/ between_ticks(Cruising /\ waypoints_cb)
    \/ between_ticks(Cruising /\ traffic_cb)
    \/ in_tick(wait_for_inputs)
    \/ in_tick(find_closest_waypoint_148)
    \/ in_tick(find_closest_waypoint_155)
    \/ in_tick(is_red_traffic_light_near_240)
    \/ in_tick(is_red_traffic_light_near_243)
    \/ in_tick(is_red_traffic_light_near_245)
    \/ in_tick(is_red_traffic_light_near_248)
    \/ in_tick(is_red_traffic_light_near_251)
    \/ in_tick(update_state_272)
    \/ in_tick(distance_to_next_traffic_light_256)
    \/ in_tick(update_state_275)
    \/ in_tick(publish_waypoints_224)
    \/ in_tick(publish_waypoints_228)
    \/ in_tick(publish_waypoints_236)
    \/ in_tick(publish_cte_214)
    \/ in_tick(publish_cte_215)

SpecBraking == Init /\ [][NextBraking]_vars

-----------------------------------------------------------------------------
(* Properties *)

\* update_state has returned in the running tick
AfterUpdate == pc \in {"pub224", "pub228", "pub236", "cte214", "cte215"}

\* the lane of the running tick is complete and about to be published
LaneComplete == pc = "pub236"

\* the tick has read the stop request, and every read so far returned r
StopRequestRead(r) == ~torn /\ seen.red = Some(r)

\* the route every read of the running, untorn tick returned
SeenPath == Val(Val(seen.path))

\* C1: when update_state completes the transition from KEEP_VELOCITY to
\* STOP_AT_TL, the state is STOP_AT_TL, the trajectory origin is the current
\* index, and the braking profile starts at the latest delivered velocity and
\* stops at the arc length from the current index to the stop index.
C1_BrakingProfileSeededWithCurrentSpeed ==
    [][ (pc = "dist257" /\ pc' = "pub224") =>
          /\ state' = STOP_AT_TL
          /\ trajectory_start_idx' = current_idx
          /\ trajectory' # None
          /\ Val(trajectory').distance_to_tl =
                 distance(Val(waypoints), current_idx, red_tl_waypoint_idx)
          /\ (velocity # None =>
                 Val(trajectory').start_velocity = Val(velocity)) ]_vars

\* C2: when update_state leaves STOP_AT_TL because the light is not near, the
\* state is KEEP_VELOCITY and the trajectory is a cruise profile, never empty.
C2_CruiseProfileAfterStop ==
    [][ (pc = "upd272" /\ pc' # pc /\ state = STOP_AT_TL /\ ~tl_near) =>
          /\ state' = KEEP_VELOCITY
          /\ trajectory' # None
          /\ Val(trajectory').class = "VelocityKeepingTrajectory" ]_vars

ClaimedStopNear(d, v) ==
    LET low   == v = None \/ Val(v) < StandstillVelocity
        speed == IF v = None THEN StandstillVelocity
                             ELSE Max(Val(v), StandstillVelocity)
    IN  \/ d < breaking_trajectory_duration * speed
        \/ low /\ d < StandstillDistance

\* C4: in a tick whose reads agree, for a stop index at or ahead of the
\* current index tl_near is exactly the worded predicate; and a tick that
\* starts in KEEP_VELOCITY with the stop index 30.0 ahead at speed 10.0 ends
\* in STOP_AT_TL with speed 0 published at the stop index.
C4_StopNearPredicate ==
    /\ ( /\ pc = "upd272" /\ ~torn
         /\ seen.red # None /\ Val(seen.red) # -1
         /\ current_idx <= Val(seen.red) )
       => tl_near = ClaimedStopNear(
                       distance(SeenPath, current_idx, Val(seen.red)),
                       Val(seen.vel))
    /\ ( /\ LaneComplete /\ ~torn
         /\ tick_state = KEEP_VELOCITY
         /\ seen.red # None /\ Val(seen.red) >= current_idx
         /\ seen.vel = Some(Some(100))
         /\ distance(SeenPath, current_idx, Val(seen.red)) = 300 )
       => /\ state = STOP_AT_TL
          /\ \E k \in 1 .. Len(lane) : lane[k].idx = Val(seen.red)
          /\ \A k \in 1 .. Len(lane) :
               lane[k].idx = Val(seen.red) => lane[k].v = 0

\* C4 witness: the scenario's tick has ended
C4_Witness ==
    /\ pc = "pub236" /\ ~torn
    /\ tick_state = KEEP_VELOCITY /\ state = STOP_AT_TL
    /\ seen.red # None /\ Val(seen.red) >= current_idx
    /\ seen.vel = Some(Some(100))
    /\ distance(SeenPath, current_idx, Val(seen.red)) = 300
    /\ \E k \in 1 .. Len(lane) : lane[k].idx = Val(seen.red) /\ lane[k].v = 0

\* C5: a tick that reads the stop request -1 finds the light not near, and a
\* tick that finds the light not near ends update_state in KEEP_VELOCITY.
C5_NoStopRequestKeepsVelocity ==
    [][ /\ (pc = "near240" /\ pc' # pc /\ red_tl_waypoint_idx = -1)
            => (pc' = "upd272" /\ tl_near' = FALSE)
        /\ (pc = "upd272" /\ pc' # pc /\ ~tl_near)
            => (pc' = "pub224" /\ state' = KEEP_VELOCITY) ]_vars

\* C5 witness: a tick that started in STOP_AT_TL read the stop request -1 and
\* is back in KEEP_VELOCITY
C5_Witness ==
    /\ pc = "pub224"
    /\ tick_state = STOP_AT_TL /\ state = KEEP_VELOCITY
    /\ StopRequestRead(-1)

\* C6: with the current index past the stop index, tl_near only if the path
\* distance from the stop line to the vehicle's waypoint is below 2.0, and a
\* tick that starts in KEEP_VELOCITY 2.0 or more past the stop line stays in
\* KEEP_VELOCITY.
C6_NoRebrakeAfterStopLine ==
    ( /\ pc \in {"upd272", "dist256", "dist257"} \/ AfterUpdate
      /\ ~torn
      /\ seen.red # None /\ Val(seen.red) # -1
      /\ current_idx > Val(seen.red) )
    => LET behind == distance(SeenPath, Val(seen.red), current_idx)
       IN  /\ tl_near => behind < PassedDistance
           /\ (tick_state = KEEP_VELOCITY /\ behind >= PassedDistance)
                  => state = KEEP_VELOCITY

\* the steps of update_state that carry out a transition
TransitionStep ==
    \/ /\ pc = "upd272"
       /\ \/ state = KEEP_VELOCITY /\ tl_near
          \/ state = STOP_AT_TL /\ ~tl_near
    \/ pc = "dist257" /\ pc' = "pub224"

\* C7: a tick whose tl_near agrees with the state leaves the state, the
\* trajectory with its parameters and the trajectory origin as they are; only
\* the steps of a transition change any of them.
C7_SelfTransitionsKeepProfile ==
    [][ <<state, trajectory, trajectory_start_idx>>'
            # <<state, trajectory, trajectory_start_idx>>
        => TransitionStep ]_vars

\* C7 witness: update_state has returned from a tick that started in
\* STOP_AT_TL at another index than the profile's origin and found the light
\* still near
C7_Witness ==
    /\ pc = "pub224"
    /\ tick_state = STOP_AT_TL /\ state = STOP_AT_TL /\ tl_near
    /\ trajectory # None
    /\ trajectory_start_idx # current_idx

\* C8: no read of a tick returns another value of a field than an earlier
\* read of the same tick.
C8_TickReadsOneSnapshot == ~torn

\* C9: the assertion of distance_to_next_traffic_light never fails.
C9_StopDistanceAssertionHolds == ~(pc = "crashed" /\ err = "AssertionError")

\* C10: no read of a waypoint uses an index outside the current route.
C10_PathIndicesInBounds == ~(pc = "crashed" /\ err = "IndexError")

\* the pose is complete: pose_cb has assigned all of px, py and yaw
PoseComplete == px # None /\ py # None /\ yaw # None

\* C11: the loop leaves its wait for the inputs only when a complete pose
\* (x, y and yaw) and a route have been received, and a tick never ends the
\* loop by meeting a missing pose field.
C11_TicksOnlyWithCompletePose ==
    /\ pc # "wait" => PoseComplete /\ waypoints # None
    /\ ~(pc = "crashed" /\ err = "TypeError")

\* the index the scan of find_closest_waypoint finds for the pose and route
Scanned == closest_scan(Val(waypoints), Val(px), Val(py), 0, -1, 0)

\* the closest waypoint is the route's last and is not ahead, so that the
\* advance by one leads to the route's first
SeamWrap ==
    /\ Scanned = Len(Val(waypoints)) - 1
    /\ ~is_waypoint_ahead(Val(waypoints)[Scanned + 1], Val(px), Val(py), Val(yaw))

\* C12: find_closest_waypoint returns an index of the route whose waypoint
\* has a positive local x in the vehicle frame, unless the advance by one
\* wrapped from the route's last waypoint to its first.
C12_ClosestWaypointIsAhead ==
    pc = "near240" =>
        /\ InRange(Val(waypoints), current_idx)
        /\ \/ is_waypoint_ahead(Val(waypoints)[current_idx + 1],
                                Val(px), Val(py), Val(yaw))
           \/ SeamWrap

\* velocity_at_position has been called on a profile with a positive distance
ProfileCalled == call.x # None /\ call.trajectory.distance_to_tl > 0

\* C13: for a start velocity v0 >= 0 and a distance d > 0 the braking profile
\* gives v0 at position 0, gives 0 at every position x >= d, and gives no
\* more at a position than at a position before it.
C13_BrakingProfileShape ==
    ProfileCalled /\ call.trajectory.start_velocity >= 0 =>
        /\ Val(call.x) = 0 => Val(call.v) = call.trajectory.start_velocity
        /\ Val(call.x) >= call.trajectory.distance_to_tl => Val(call.v) = 0
        /\ call.prev # None /\ Val(call.prev).x <= Val(call.x)
              => Val(call.v) <= Val(call.prev).v

\* C13 witness: two calls at positions before the stop, the later one further
\* on and slower, and neither at rest
C13_Witness ==
    /\ ProfileCalled /\ call.prev # None
    /\ Val(call.prev).x < Val(call.x)
    /\ Val(call.x) < call.trajectory.distance_to_tl
    /\ 0 < Val(call.v) /\ Val(call.v) < Val(call.prev).v

\* C14: before the stop the profile is the solution of constant deceleration,
\* v(x)^2 = max(0, v0^2 + 2 a x) with the acceleration a of the profile, which
\* reaches 0 before x reaches d.
C14_ConstantDecelerationSolution ==
    ProfileCalled /\ Val(call.x) < call.trajectory.distance_to_tl =>
        LET t == call.trajectory
            v0sq == t.start_velocity * t.start_velocity
        IN  Val(call.v) =
              Isqrt(Max(0, v0sq + ((2 * 10 * Val(call.x) * t.acceleration.num)
                                     \div t.acceleration.den)))

\* get_steering has been called
SteerCalled == call.result # None
SteerArgs == Val(call.args)
SteerResult == Val(call.result)

\* C15 as stated: for all controller parameters and all arguments,
\* get_steering returns an angle whose magnitude does not exceed
\* max_steer_angle.
C15_SteeringWithinLimitForAllParameters ==
    SteerCalled =>
        /\ SteerResult.angle # None
        /\ Abs(Val(SteerResult.angle)) <= call.yc.max_steer_angle

\* C15, amended: for a controller with max_steer_angle >= 0 and
\* min_speed > 0 and for all arguments, get_steering returns an angle whose
\* magnitude does not exceed max_steer_angle.
C15_SteeringWithinLimit ==
    SteerCalled /\ call.yc.max_steer_angle >= 0 /\ call.yc.min_speed > 0 =>
        /\ SteerResult.angle # None
        /\ Abs(Val(SteerResult.angle)) <= call.yc.max_steer_angle

\* C15 witness: a call whose angle before the last clamp exceeds the limit
\* and is returned at the limit
C15_Witness ==
    /\ SteerCalled /\ call.yc.max_steer_angle > 0 /\ call.yc.min_speed > 0
    /\ SteerResult.radius # None
    /\ SteerResult.angle = Some(call.yc.max_steer_angle)
    /\ atan_pos(call.yc.wheel_base * Val(SteerResult.radius).den,
                10 * Val(SteerResult.radius).num) * call.yc.steer_ratio
         > 1000 * call.yc.max_steer_angle

\* C16: get_steering returns exactly 0 when the linear velocity is 0, when
\* |current velocity| <= 0.1, and when the rescaled and clamped angular
\* velocity is 0; in these cases it raises nothing and computes no radius.
C16_ZeroSteeringCases ==
    /\ SteerCalled
    /\ \/ SteerArgs.linear_velocity = 0
       \/ Abs(SteerArgs.current_velocity) <= 1
       \/ Val(SteerResult.angular_velocity).num = 0
    => /\ SteerResult.angle = Some(0)
       /\ SteerResult.raised = "none"
       /\ SteerResult.radius = None

\* C16 witness: the vehicle moves and a turn is asked for, and the clamp to
\* the yaw rate the lateral acceleration allows leaves an angular velocity
\* of 0
C16_Witness ==
    /\ SteerCalled
    /\ SteerArgs.linear_velocity # 0 /\ SteerArgs.angular_velocity # 0
    /\ Abs(SteerArgs.current_velocity) > 1
    /\ Val(SteerResult.angular_velocity).num = 0
    /\ SteerResult.angle = Some(0)

\* the sum of the distances between the consecutive waypoints wp1, wp1 + 1,
\* ..., wp2 of the list, taken from the far end
RECURSIVE SumSegments(_, _, _)
SumSegments(wps, wp1, wp2) ==
    IF wp2 <= wp1 THEN 0
    ELSE SumSegments(wps, wp1, wp2 - 1) + dl(wps[wp2], wps[wp2 + 1])

\* C17: for wp1 <= wp2, distance(wp1, wp2) is the sum of the distances
\* between the consecutive waypoints from wp1 to wp2; it is 0 for wp1 = wp2,
\* and distance(wp1, wp2) = distance(wp1, j) + distance(j, wp2) for every j
\* from wp1 to wp2.
C17_DistanceIsArcLength ==
    call.dist # None /\ Val(call.wp1) <= Val(call.wp2) =>
        /\ Val(call.dist) = SumSegments(call.waypoints, Val(call.wp1), Val(call.wp2))
        /\ Val(call.wp1) = Val(call.wp2) => Val(call.dist) = 0
        /\ \A j \in Val(call.wp1) .. Val(call.wp2) :
             Val(call.dist) = distance(call.waypoints, Val(call.wp1), j)
                              + distance(call.waypoints, j, Val(call.wp2))

\* C17 witness: a distance over at least two segments of positive length
\* that is longer than the straight line between its ends
C17_Witness ==
    /\ call.dist # None /\ Val(call.wp1) + 2 <= Val(call.wp2)
    /\ distance(call.waypoints, Val(call.wp1), Val(call.wp1) + 1) > 0
    /\ distance(call.waypoints, Val(call.wp1) + 1, Val(call.wp2)) > 0
    /\ Val(call.dist) > dl(call.waypoints[Val(call.wp1) + 1],
                           call.waypoints[Val(call.wp2) + 1])

\* C18: a call of image_cb replaces the stable state (last_state, last_wp)
\* only when the frames up to this one have predicted one and the same state
\* at least STATE_COUNT_THRESHOLD times in a row; a call that does not
\* replace it publishes nothing but the stable last_wp; a call that does
\* publishes the light's waypoint if the state is RED and -1 otherwise, and
\* that is the new stable state.
C18_StableStateAfterThreshold ==
    [][ LET f == Val(tl_frame')
            light_wp == IF f.state = "RED" THEN f.light_wp ELSE -1
        IN  IF <<tl_last_state, tl_last_wp>>' # <<tl_last_state, tl_last_wp>>
            THEN /\ tl_run' >= STATE_COUNT_THRESHOLD
                 /\ tl_last_state' = f.state /\ tl_last_wp' = light_wp
                 /\ tl_pub' = <<light_wp>>
            ELSE \A k \in DOMAIN tl_pub' : tl_pub'[k] = tl_last_wp ]_vars

\* C18 witness: RED has been counted up to the threshold, and the call on
\* the next RED frame has made RED and the light's waypoint the stable state
\* and published that waypoint
C18_Witness ==
    /\ tl_state_count = STATE_COUNT_THRESHOLD + 1
    /\ tl_frame # None /\ Val(tl_frame).state = "RED"
    /\ tl_last_state = "RED" /\ tl_last_wp = Val(tl_frame).light_wp
    /\ tl_pub = <<tl_last_wp>>

\* C19: every call of image_cb publishes exactly one value on
\* /traffic_waypoint.
C19_OneValuePerFrame == tl_frame # None => Len(tl_pub) = 1

\* C20: once update_state has returned, the state is STOP_AT_TL exactly when
\* a braking profile is held, and in STOP_AT_TL the trajectory origin is not
\* -1 and is an index of the route.
C20_StateAndTrajectoryAgree ==
    AfterUpdate =>
        /\ state = STOP_AT_TL <=> trajectory # None
        /\ state = STOP_AT_TL =>
              /\ trajectory_start_idx # -1
              /\ InRange(Val(waypoints), trajectory_start_idx)

\* C21: a tick that starts in STOP_AT_TL, with the stop request and the
\* route unchanged since the planner entered it and the stop index at or
\* ahead of the current index, leaves the planner in STOP_AT_TL, whatever
\* the velocity has become and wherever the vehicle is.
C21_BrakingKeepsStop ==
    [][ /\ pc = "upd272"
        /\ state = STOP_AT_TL
        /\ red_tl_waypoint_idx # -1
        /\ red_tl_waypoint_idx >= current_idx
        => state' = STOP_AT_TL ]_vars

=============================================================================
